---- MODULE Spec2Model ----
(***************************************************************************)
(* A model of fastapi_crudrouter.core.sqlalchemy.SQLAlchemyCRUDRouter: the *)
(* six generated route handlers over one table reached through a SQLAlchemy *)
(* session, and the router's prefix as set at construction.                 *)
(*                                                                         *)
(* The table has the primary-key column "id" and the unique column "name". *)
(* Column values are positive integers.  A request is handled in one step  *)
(* (the whole route function, its commit or rollback included); the        *)
(* response then stays in flight until Deliver hands it to the client.     *)
(***************************************************************************)
EXTENDS Integers, Sequences, FiniteSets, TLC

VARIABLES
    table,      \* the committed rows of db_model's table
    pending,    \* the session's unit of work: changes not yet committed
    req,        \* the request being answered
    resp,       \* the response in flight
    tablename,  \* db_model.__tablename__
    prefixArg,  \* the constructor's prefix argument: <<>> is None, <<s>> is s
    prefix      \* router.prefix: <<>> before construction, <<s>> after

vars == <<table, pending, req, resp, tablename, prefixArg, prefix>>

----------------------------------------------------------------------------
(* Bounds *)

MaxId == 3          \* primary keys are 1..MaxId
MaxName == 2        \* values of the unique column are 1..MaxName
MaxSkip == 1        \* skip is 0..MaxSkip
MaxLimit == 2       \* limit is None or 1..MaxLimit
MaxFilterVal == 2   \* the values a filter names are 1..MaxFilterVal
MaxTableNameLen == 3

----------------------------------------------------------------------------
(* The table and the schemas *)

Pk == "id"
Columns == {"id", "name"}
UniqueColumns == {"id", "name"}
SchemaFields == {"id", "name", "extra"}

Ids == 1..MaxId
Names == 1..MaxName
Rows == [id : Ids, name : Names]

\* Python's None where an integer is expected
None == 0

Keys(t) == {r.id : r \in t}

\* A table state the database can hold: both columns unique
ValidTable(t) ==
    \A r1, r2 \in t : (r1.id = r2.id \/ r1.name = r2.name) => r1 = r2

----------------------------------------------------------------------------
(* The session: db.add, setattr on a loaded object, db.delete,             *)
(* query.delete, db.commit, db.rollback, db.refresh                        *)

\* One change to row `id` (unused by an insert or a bulk delete)
Change(op, id, row) == [op |-> op, id |-> id, row |-> row]

NoRow == [id |-> None, name |-> None]

\* The table after one flushed change, or the IntegrityError the database
\* raises for it.  An inserted row without primary key gets `autoId`.
ApplyChange(t, c, autoId) ==
    CASE c.op = "insert" ->
            LET row == IF c.row.id = None
                       THEN [c.row EXCEPT !.id = autoId] ELSE c.row
            IN  IF \E r \in t : \E u \in UniqueColumns : r[u] = row[u]
                THEN [ok |-> FALSE, table |-> t]
                ELSE [ok |-> TRUE, table |-> t \cup {row}]
      [] c.op = "update" ->
            LET others == {r \in t : r.id # c.id}
            IN  IF \E r \in others : \E u \in UniqueColumns : r[u] = c.row[u]
                THEN [ok |-> FALSE, table |-> t]
                ELSE [ok |-> TRUE,
                      table |-> IF c.id \in Keys(t) THEN others \cup {c.row}
                                ELSE t]
      [] c.op = "delete" ->
            [ok |-> TRUE, table |-> {r \in t : r.id # c.id}]
      [] c.op = "delete_all" ->
            [ok |-> TRUE, table |-> {}]

RECURSIVE Flush(_, _, _)
Flush(t, p, autoId) ==
    IF p = <<>> THEN [ok |-> TRUE, table |-> t]
    ELSE LET one == ApplyChange(t, Head(p), autoId)
         IN  IF one.ok THEN Flush(one.table, Tail(p), autoId) ELSE one

\* db.commit(): all pending changes reach the table, or none does and
\* IntegrityError is raised with the unit of work still pending.
Commit(t, p, autoId) ==
    LET f == Flush(t, p, autoId)
    IN  IF f.ok THEN [ok |-> TRUE, table |-> f.table, pending |-> <<>>]
        ELSE [ok |-> FALSE, table |-> t, pending |-> p]

\* Mutant: rollback() that leaves the unit of work in the session
RollbackKeepsPending(p) == p

\* db.rollback(): the unit of work is discarded
Rollback(p) == <<>>

\* db.refresh(db_model): the row as the table holds it now
Refresh(t, id) == CHOOSE r \in t : r.id = id

\* db.query(self.db_model).get(item_id): the row or None, as a sequence
QueryGet(t, item_id) ==
    IF item_id \in Keys(t) THEN <<CHOOSE r \in t : r.id = item_id>> ELSE <<>>

----------------------------------------------------------------------------
(* Requests and responses *)

NoPayload == [f \in {} |-> None]

NoRequest ==
    [op |-> "none", item_id |-> None, model |-> NoPayload,
     skip |-> 0, limit |-> None, filter |-> <<>>]

Request(op, item_id, model) ==
    [NoRequest EXCEPT !.op = op, !.item_id = item_id, !.model = model]

NoResponse ==
    [status |-> 0, detail |-> "", body |-> <<>>, items |-> <<>>,
     headers |-> ""]

\* A 2xx response carrying one record
Returned(row) == [NoResponse EXCEPT !.status = 200, !.body = <<row>>]

\* raise HTTPException(status, detail)
HTTPException(status, detail) ==
    [NoResponse EXCEPT !.status = status, !.detail = detail]

\* NOT_FOUND of the package: HTTPException(404, "Item not found")
NOT_FOUND == HTTPException(404, "Item not found")

\* An exception no handler catches: the framework answers 500
Unhandled(exception) == HTTPException(500, exception)

----------------------------------------------------------------------------
(* _get_one *)

GetOneRoute(t, item_id) ==
    LET model == QueryGet(t, item_id)
    IN  IF model # <<>> THEN Returned(model[1]) ELSE NOT_FOUND

GetOne(item_id) ==
    /\ req = NoRequest
    /\ req' = Request("get_one", item_id, NoPayload)
    /\ resp' = GetOneRoute(table, item_id)
    /\ UNCHANGED <<table, pending, tablename, prefixArg, prefix>>

----------------------------------------------------------------------------
(* _create *)

\* Mutant: the payload's primary key is dropped, as in the update route
NewRowWithoutPk(model) ==
    [c \in Columns |-> IF c \in DOMAIN model /\ c # Pk THEN model[c] ELSE None]

\* self.db_model(**model.dict()): a column the payload lacks is None
NewRow(model) ==
    [c \in Columns |-> IF c \in DOMAIN model THEN model[c] ELSE None]

\* Mutant: IntegrityError is not caught
CreateRouteUncaught(t, p, model, autoId) ==
    LET db_model == NewRow(model)
        added == Append(p, Change("insert", None, db_model))
        c == Commit(t, added, autoId)
        id == IF db_model.id = None THEN autoId ELSE db_model.id
    IN  IF c.ok
        THEN [table |-> c.table, pending |-> c.pending,
              resp |-> Returned(Refresh(c.table, id))]
        ELSE [table |-> c.table, pending |-> c.pending,
              resp |-> Unhandled("IntegrityError")]

CreateRoute(t, p, model, autoId) ==
    LET db_model == NewRow(model)
        added == Append(p, Change("insert", None, db_model))
        c == Commit(t, added, autoId)
        id == IF db_model.id = None THEN autoId ELSE db_model.id
    IN  IF c.ok
        THEN [table |-> c.table, pending |-> c.pending,
              resp |-> Returned(Refresh(c.table, id))]
        ELSE [table |-> c.table, pending |-> Rollback(c.pending),
              resp |-> HTTPException(422, "Key already exists")]

CreatePayloads ==
    {[name |-> n] : n \in Names} \cup [id : Ids, name : Names]

\* The key the database generates for a row inserted without one: any key
\* no row holds (the one key it would pick depends on the backend)
AutoIds(t, model) ==
    IF Pk \in DOMAIN model THEN {None} ELSE Ids \ Keys(t)

Create(model, autoId) ==
    /\ req = NoRequest
    /\ autoId \in AutoIds(table, model)
    /\ LET out == CreateRoute(table, pending, model, autoId)
       IN  /\ table' = out.table
           /\ pending' = out.pending
           /\ resp' = out.resp
    /\ req' = Request("create", None, model)
    /\ UNCHANGED <<tablename, prefixArg, prefix>>

----------------------------------------------------------------------------
(* _update *)

\* Mutant: model.dict() with nothing excluded
DictExcludeNothing(model, excluded) == model

\* model.dict(exclude={self._pk})
DictExclude(model, excluded) ==
    [k \in DOMAIN model \ excluded |-> model[k]]

\* for key, value in ...: if hasattr(db_model, key): setattr(db_model, key, value)
SetAttrs(db_model, fields) ==
    [c \in Columns |-> IF c \in DOMAIN fields THEN fields[c] ELSE db_model[c]]

UpdateRoute(t, p, item_id, model, autoId) ==
    LET found == GetOneRoute(t, item_id)
    IN  IF found.status # 200
        THEN [table |-> t, pending |-> p, resp |-> found]
        ELSE LET db_model == SetAttrs(found.body[1], DictExclude(model, {Pk}))
                 dirty == IF db_model = found.body[1] THEN p
                          ELSE Append(p, Change("update", item_id, db_model))
                 c == Commit(t, dirty, autoId)
             IN  IF c.ok
                 THEN [table |-> c.table, pending |-> c.pending,
                       resp |-> Returned(Refresh(c.table, db_model.id))]
                 ELSE [table |-> c.table, pending |-> Rollback(c.pending),
                       resp |-> HTTPException(422, "IntegrityError")]

FieldValues(f) ==
    CASE f = "id" -> Ids
      [] f = "name" -> Names
      [] OTHER -> {1}

UpdatePayloads ==
    UNION {{m \in [D -> Ids \cup Names] : \A f \in D : m[f] \in FieldValues(f)} :
           D \in SUBSET SchemaFields}

Update(item_id, model) ==
    /\ req = NoRequest
    /\ LET out == UpdateRoute(table, pending, item_id, model, None)
       IN  /\ table' = out.table
           /\ pending' = out.pending
           /\ resp' = out.resp
    /\ req' = Request("update", item_id, model)
    /\ UNCHANGED <<tablename, prefixArg, prefix>>

----------------------------------------------------------------------------
(* _delete_one *)

\* Mutant: db.delete without db.commit
DeleteOneRouteNoCommit(t, p, item_id) ==
    LET found == GetOneRoute(t, item_id)
    IN  IF found.status # 200
        THEN [table |-> t, pending |-> p, resp |-> found]
        ELSE [table |-> t,
              pending |-> Append(p, Change("delete", item_id, found.body[1])),
              resp |-> Returned(found.body[1])]

DeleteOneRoute(t, p, item_id) ==
    LET found == GetOneRoute(t, item_id)
    IN  IF found.status # 200
        THEN [table |-> t, pending |-> p, resp |-> found]
        ELSE LET db_model == found.body[1]
                 c == Commit(t, Append(p, Change("delete", item_id, db_model)),
                             None)
             IN  [table |-> c.table, pending |-> c.pending,
                  resp |-> Returned(db_model)]

DeleteOne(item_id) ==
    /\ req = NoRequest
    /\ LET out == DeleteOneRoute(table, pending, item_id)
       IN  /\ table' = out.table
           /\ pending' = out.pending
           /\ resp' = out.resp
    /\ req' = Request("delete_one", item_id, NoPayload)
    /\ UNCHANGED <<tablename, prefixArg, prefix>>

----------------------------------------------------------------------------
(* The filter string.  A string is a sequence of JSON tokens: the six      *)
(* punctuation marks, quoted strings and integer literals.                 *)

Quote(s) == "\"" \o s \o "\""
Literal(n) == ToString(n)

IsString(tok) == \E s \in SchemaFields : tok = Quote(s)
Unquote(tok) == CHOOSE s \in SchemaFields : tok = Quote(s)
IsNumber(tok) == \E n \in 0..(MaxFilterVal + 1) : tok = Literal(n)
NumberOf(tok) == CHOOSE n \in 0..(MaxFilterVal + 1) : tok = Literal(n)

\* What json.loads keeps of a value: its kind, how many items iterating it
\* yields (len), the integers among them (nums) and, of an object, the
\* members in order.  `next` is the position after the value.
JsonValue(kind, next, len, nums, members) ==
    [ok |-> TRUE, kind |-> kind, next |-> next, len |-> len, nums |-> nums,
     members |-> members]

JSONDecodeError ==
    [ok |-> FALSE, kind |-> "", next |-> 0, len |-> 0, nums |-> <<>>,
     members |-> <<>>]

RECURSIVE ParseValue(_, _), ParseElements(_, _, _, _), ParseMembers(_, _, _)

ParseValue(s, i) ==
    IF i > Len(s) THEN JSONDecodeError
    ELSE CASE IsNumber(s[i]) ->
                 JsonValue("number", i + 1, 0, <<NumberOf(s[i])>>, <<>>)
           [] IsString(s[i]) ->
                 JsonValue("string", i + 1, 1, <<>>, <<>>)
           [] s[i] = "[" ->
                 IF i + 1 <= Len(s) /\ s[i + 1] = "]"
                 THEN JsonValue("array", i + 2, 0, <<>>, <<>>)
                 ELSE ParseElements(s, i + 1, 0, <<>>)
           [] s[i] = "{" ->
                 IF i + 1 <= Len(s) /\ s[i + 1] = "}"
                 THEN JsonValue("object", i + 2, 0, <<>>, <<>>)
                 ELSE ParseMembers(s, i + 1, <<>>)
           [] OTHER -> JSONDecodeError

\* The elements of an array from position i on, `len` of them read so far
ParseElements(s, i, len, nums) ==
    LET v == ParseValue(s, i)
        got == IF v.ok /\ v.kind = "number" THEN nums \o v.nums ELSE nums
    IN  IF ~v.ok \/ v.next > Len(s) THEN JSONDecodeError
        ELSE CASE s[v.next] = "," -> ParseElements(s, v.next + 1, len + 1, got)
               [] s[v.next] = "]" ->
                     JsonValue("array", v.next + 1, len + 1, got, <<>>)
               [] OTHER -> JSONDecodeError

\* The members of an object from position i on
ParseMembers(s, i, members) ==
    IF i + 1 > Len(s) \/ ~IsString(s[i]) \/ s[i + 1] # ":"
    THEN JSONDecodeError
    ELSE LET v == ParseValue(s, i + 2)
             got == Append(members,
                           [key |-> Unquote(s[i]), kind |-> v.kind,
                            len |-> v.len, nums |-> v.nums])
         IN  IF ~v.ok \/ v.next > Len(s) THEN JSONDecodeError
             ELSE CASE s[v.next] = "," -> ParseMembers(s, v.next + 1, got)
                    [] s[v.next] = "}" ->
                          JsonValue("object", v.next + 1, Len(got), <<>>, got)
                    [] OTHER -> JSONDecodeError

\* json.loads(filter): the value, or JSONDecodeError (also for text after it)
JsonLoads(s) ==
    LET v == ParseValue(s, 1)
    IN  IF v.ok /\ v.next = Len(s) + 1 THEN v ELSE JSONDecodeError

\* filter.items() of a parsed object: of two members with one key the dict
\* keeps the later one
DictItems(members) ==
    LET kept == {i \in 1..Len(members) :
                    \A j \in (i + 1)..Len(members) :
                        members[j].key # members[i].key}
    IN  {members[i] : i \in kept}

----------------------------------------------------------------------------
(* _get_all *)

\* or_(getattr(self.db_model, attr) == v for v in value) on row r: an or_()
\* of no clause is an empty expression, which filter() ignores
OrClause(r, item) ==
    IF item.len = 0 THEN TRUE ELSE \E k \in 1..Len(item.nums) : r[item.key] = item.nums[k]

\* The exception the filter loop raises on a parsed filter, "" for none:
\* filter.items() of a value that is no object, getattr of a name that is
\* no column, iteration over a number
FilterLoopError(parsed) ==
    IF parsed.kind # "object" THEN "AttributeError"
    ELSE LET items == DictItems(parsed.members)
             B == {i \in 1..Len(parsed.members) :
                      /\ parsed.members[i] \in items
                      /\ \/ parsed.members[i].key \notin Columns
                         \/ parsed.members[i].kind = "number"}
         IN  IF B = {} THEN ""
             ELSE LET first == parsed.members[CHOOSE i \in B : \A j \in B : i <= j]
                  IN  IF first.key \notin Columns THEN "AttributeError"
                      ELSE "TypeError"

\* The rows of the filtered query
Filtered(t, parsed) ==
    {r \in t : \A item \in DictItems(parsed.members) : OrClause(r, item)}

\* The rows of a query in the order the database scans them: no ORDER BY
\* is given, so the order is that of the index the database picks
RECURSIVE InOrder(_, _)
InOrder(rows, by) ==
    IF rows = {} THEN <<>>
    ELSE LET first == CHOOSE r \in rows : \A q \in rows : r[by] <= q[by]
         IN  <<first>> \o InOrder(rows \ {first}, by)

\* query.limit(limit).offset(skip).all()
LimitOffset(all, limit, skip) ==
    LET last == IF limit = None THEN Len(all)
                ELSE IF skip + limit < Len(all) THEN skip + limit ELSE Len(all)
    IN  SubSeq(all, skip + 1, last)

\* Mutant: the range ends one past the last record returned
ContentRangeOffByOne(skip, count, total) ==
    ToString(skip) \o "-" \o ToString(skip + count) \o "/" \o ToString(total)

\* f"{skip}-{skip + len(db_models) - 1}/{total}"
ContentRange(skip, count, total) ==
    ToString(skip) \o "-" \o ToString(skip + count - 1) \o "/" \o ToString(total)

\* query.count()
Count(rows) == Cardinality(rows)

\* The route function, called with the arguments named in `supplied`
GetAllRoute(t, supplied, skip, limit, filter, by) ==
    IF "response" \notin supplied THEN Unhandled("TypeError")
    ELSE LET parsed == IF filter # <<>> THEN JsonLoads(filter)
                       ELSE JsonValue("object", 0, 0, <<>>, <<>>)
         IN  IF ~parsed.ok THEN Unhandled("JSONDecodeError")
             ELSE IF FilterLoopError(parsed) # ""
             THEN Unhandled(FilterLoopError(parsed))
             ELSE LET query == Filtered(t, parsed)
                      total == Count(query)
                      db_models == LimitOffset(InOrder(query, by), limit, skip)
                  IN  [NoResponse EXCEPT
                          !.status = 200,
                          !.items = db_models,
                          !.headers = ContentRange(skip, Len(db_models), total)]

\* The arguments the framework resolves for a request
FrameworkSupplied == {"response", "db", "pagination", "filter", "sort"}

\* The pagination dependency: skip >= 0 and limit None or > 0
Skips == 0..MaxSkip
Limits == {None} \cup 1..MaxLimit \cup {10}

GetAll(skip, limit, filter, by) ==
    /\ req = NoRequest
    /\ req' = [NoRequest EXCEPT !.op = "get_all", !.skip = skip,
                                !.limit = limit, !.filter = filter]
    /\ resp' = GetAllRoute(table, FrameworkSupplied, skip, limit, filter, by)
    /\ UNCHANGED <<table, pending, tablename, prefixArg, prefix>>

----------------------------------------------------------------------------
(* _delete_all *)

DeleteAllRoute(t, p, by) ==
    LET c == Commit(t, Append(p, Change("delete_all", None, NoRow)), None)
    IN  [table |-> c.table, pending |-> c.pending,
         resp |-> GetAllRoute(c.table, {"db", "pagination"}, 0, None, <<>>, by)]

DeleteAll(by) ==
    /\ req = NoRequest
    /\ LET out == DeleteAllRoute(table, pending, by)
       IN  /\ table' = out.table
           /\ pending' = out.pending
           /\ resp' = out.resp
    /\ req' = Request("delete_all", None, NoPayload)
    /\ UNCHANGED <<tablename, prefixArg, prefix>>

----------------------------------------------------------------------------
(* The request ends: the framework sends the response *)

Deliver ==
    /\ req # NoRequest
    /\ req' = NoRequest
    /\ resp' = NoResponse
    /\ UNCHANGED <<table, pending, tablename, prefixArg, prefix>>

----------------------------------------------------------------------------
(* The filter strings a client sends *)

FilterVals == 1..MaxFilterVal

\* A filter specification: attribute names to sets of acceptable values
FilterSpecs == UNION {[D -> SUBSET FilterVals] : D \in SUBSET Columns}

RECURSIVE Ascending(_)
Ascending(S) ==
    IF S = {} THEN <<>>
    ELSE LET least == CHOOSE x \in S : \A y \in S : x <= y
         IN  <<least>> \o Ascending(S \ {least})

RECURSIVE Join(_)
Join(toks) ==
    IF toks = <<>> THEN <<>>
    ELSE IF Len(toks) = 1 THEN toks[1]
    ELSE toks[1] \o <<",">> \o Join(Tail(toks))

\* The JSON text of a filter specification, of the form {"id":[1,2]}
Encode(f) ==
    LET array(S) == <<"[">> \o Join([i \in 1..Cardinality(S) |->
                                         <<Literal(Ascending(S)[i])>>]) \o <<"]">>
        keys == SelectSeq(<<"id", "name">>, LAMBDA k : k \in DOMAIN f)
        member(k) == <<Quote(k), ":">> \o array(f[k])
    IN  <<"{">> \o Join([i \in 1..Len(keys) |-> member(keys[i])]) \o <<"}">>

WellFormed == {Encode(f) : f \in FilterSpecs}

\* Text cut short: a filter on one attribute with its last token missing
Truncated ==
    {SubSeq(Encode(f), 1, Len(Encode(f)) - 1) :
        f \in {g \in FilterSpecs : Cardinality(DOMAIN g) = 1}}

\* Well-formed JSON that is no filter, an unknown attribute, a repeated key
Others ==
    { <<"[", "1", "]">>,
      <<"1">>,
      <<"{", Quote("id"), ":", "1", "}">>,
      <<"{", Quote("extra"), ":", "[", "1", "]", "}">>,
      <<"{", Quote("id"), ":", "[", "1", "]", ",",
             Quote("id"), ":", "[", "2", "]", "}">>,
      <<"{", Quote("id"), ":", "[", "1", "]", "}", "}">> }

\* <<>> is the absent (or empty) filter parameter
FilterStrings == {<<>>} \cup WellFormed \cup Truncated \cup Others

ScanOrders == Columns

----------------------------------------------------------------------------
(* __init__: the route prefix.  A string is a sequence of characters; an   *)
(* optional string is <<>> for None and <<s>> for the string s.            *)

Chars == {"U", "S", "u", "s", "_"}
UpperChars == {"U", "S"}

\* str.lower(), one character
LowerChar(c) ==
    CASE c = "U" -> "u"
      [] c = "S" -> "s"
      [] OTHER -> c

\* str.lower()
Lower(str) == [i \in 1..Len(str) |-> LowerChar(str[i])]

\* Mutant: the table name is not used
PrefixOnly(arg, name) == IF arg # <<>> THEN arg[1] ELSE <<>>

\* prefix or db_model.__tablename__: None and "" are falsy
PrefixOrTablename(arg, name) ==
    IF arg # <<>> /\ arg[1] # <<>> THEN arg[1] ELSE name

\* CRUDGenerator.__init__: the prefix it is given, normalized to lowercase
CRUDGeneratorInit(given) == Lower(given)

\* SQLAlchemyCRUDRouter.__init__: router.prefix
SQLAlchemyCRUDRouterInit(arg, name) ==
    CRUDGeneratorInit(PrefixOrTablename(arg, name))

Strings(n) == UNION {[1..k -> Chars] : k \in 0..n}

\* A table has a name
TableNames == Strings(MaxTableNameLen) \ {<<>>}

PrefixArgs == {<<>>, <<<<>>>>, <<<<"U", "s">>>>, <<<<"_", "S">>>>}

Construct ==
    /\ prefix = <<>>
    /\ prefix' = <<SQLAlchemyCRUDRouterInit(prefixArg, tablename)>>
    /\ UNCHANGED <<table, pending, req, resp, tablename, prefixArg>>

InitPrefix ==
    /\ table = {}
    /\ pending = <<>>
    /\ req = NoRequest
    /\ resp = NoResponse
    /\ tablename \in TableNames
    /\ prefixArg \in PrefixArgs
    /\ prefix = <<>>

NextPrefix == Construct

SpecPrefix == InitPrefix /\ [][NextPrefix]_vars

----------------------------------------------------------------------------

Init ==
    /\ table = {}
    /\ pending = <<>>
    /\ req = NoRequest
    /\ resp = NoResponse
    /\ tablename = <<"U", "s">>
    /\ prefixArg = <<>>
    /\ prefix = <<SQLAlchemyCRUDRouterInit(prefixArg, tablename)>>

Next ==
    \/ \E item_id \in Ids : GetOne(item_id)
    \/ \E model \in CreatePayloads : \E autoId \in Ids \cup {None} :
            Create(model, autoId)
    \/ \E item_id \in Ids : \E model \in UpdatePayloads : Update(item_id, model)
    \/ \E item_id \in Ids : DeleteOne(item_id)
    \/ \E skip \in Skips : \E limit \in Limits : \E filter \in FilterStrings :
            \E by \in ScanOrders : GetAll(skip, limit, filter, by)
    \/ \E by \in ScanOrders : DeleteAll(by)
    \/ Deliver

Spec == Init /\ [][Next]_vars

----------------------------------------------------------------------------
(* Properties *)

\* The session holds no uncommitted change between requests
TypeOK ==
    /\ table \subseteq Rows
    /\ ValidTable(table)
    /\ pending = <<>>

ClientError(status) == status >= 400 /\ status < 500

\* The filter specification a well-formed filter string encodes
EncodedSpecs == {<<f, Encode(f)>> : f \in FilterSpecs}
SpecOf(filter) == (CHOOSE e \in EncodedSpecs : e[2] = filter)[1]

\* The records a filter specification selects: every attribute of the
\* specification has one of its values
Matching(t, f) == {r \in t : \A a \in DOMAIN f : r[a] \in f[a]}

\* A create payload that repeats the primary key or the unique name of a row
Duplicates(t, model) ==
    \E r \in t : \E u \in UniqueColumns \cap DOMAIN model : r[u] = model[u]

\* C1: a create that violates a uniqueness constraint fails with 422, leaves
\* no uncommitted change in the session and leaves the set of rows as it
\* was; a list with skip=0, limit=10 and no filter over a table of one row
\* reports Content-Range "0-0/1".
C1_CreateConflictRollsBack ==
    [][/\ (req'.op = "create" /\ Duplicates(table, req'.model))
            => /\ resp'.status = 422
               /\ pending' = <<>>
               /\ table' = table
       /\ (/\ req'.op = "get_all" /\ req'.skip = 0 /\ req'.limit = 10
           /\ req'.filter = <<>> /\ Cardinality(table) = 1)
            => resp'.headers = "0-0/1"]_vars

C1_Witness ==
    /\ req.op = "create"
    /\ resp.status = 422
    /\ Cardinality(table) = 1
    /\ \E r \in table : r.name = req.model.name

C3_DeleteAllReturnsEmptyList ==
    req.op = "delete_all" =>
        /\ table = {}
        /\ resp.status = 200
        /\ resp.items = <<>>
        /\ resp.headers # ""

\* C4: delete_one of an existing key answers with the record as it was and
\* removes it; delete_one of an absent key fails with 404 and changes
\* nothing; get_one fails with 404 exactly when no record has the key; and a
\* key no record has comes into the table only by a create that succeeds
\* with that key.
C4_DeletedStaysNotFound ==
    [][/\ (req'.op = "delete_one" /\ req'.item_id \in Keys(table))
            => /\ resp'.status = 200
               /\ resp'.body \in {<<r>> : r \in
                                     {q \in table : q.id = req'.item_id}}
               /\ table' = {q \in table : q.id # req'.item_id}
       /\ (req'.op = "delete_one" /\ req'.item_id \notin Keys(table))
            => resp'.status = 404 /\ table' = table
       /\ req'.op = "get_one"
            => /\ req'.item_id \notin Keys(table) => resp'.status = 404
               /\ req'.item_id \in Keys(table) => resp'.status = 200
       /\ \A i \in Keys(table') \ Keys(table) :
            /\ req'.op = "create"
            /\ resp'.status = 200
            /\ resp'.body[1].id = i]_vars

C4_Witness ==
    /\ req.op = "delete_one"
    /\ resp.status = 200
    /\ req.item_id \notin Keys(table)
    /\ table # {}
    /\ GetOneRoute(table, req.item_id).status = 404

\* C5: an update leaves the set of primary keys as it was, and the record it
\* answers with has the key the request named, whatever primary key the
\* payload carries.
C5_UpdateKeepsPrimaryKey ==
    [][req'.op = "update" =>
        /\ Keys(table') = Keys(table)
        /\ resp'.status = 200 =>
             /\ resp'.body[1].id = req'.item_id
             /\ resp'.body[1] \in table'
             /\ table' \ {resp'.body[1]}
                    = {q \in table : q.id # req'.item_id}]_vars

C5_Witness ==
    /\ req.op = "update"
    /\ resp.status = 200
    /\ Pk \in DOMAIN req.model
    /\ req.model[Pk] # req.item_id
    /\ req.model[Pk] \notin Keys(table)
    /\ "name" \in DOMAIN req.model
    /\ resp.body[1].name = req.model.name

\* C6: a create that succeeds persists exactly one new record, whose fields
\* equal the payload's; get_one of its key answers with that record; get_one
\* answers with the record the table holds; and a record leaves the table
\* or changes only by an update or delete of its key or by delete_all.
C6_CreateThenGetOne ==
    [][/\ (req'.op = "create" /\ resp'.status = 200) =>
            LET made == resp'.body[1]
            IN  /\ \A f \in DOMAIN req'.model : made[f] = req'.model[f]
                /\ made \notin table
                /\ table' = table \cup {made}
                /\ Cardinality(table') = Cardinality(table) + 1
                /\ GetOneRoute(table', made.id).body = <<made>>
       /\ (req'.op = "create" /\ resp'.status # 200) => table' = table
       /\ (req'.op = "get_one" /\ resp'.status = 200) =>
            /\ resp'.body[1] \in table
            /\ resp'.body[1].id = req'.item_id
       /\ \A r \in table \ table' :
            \/ req'.op \in {"update", "delete_one"} /\ req'.item_id = r.id
            \/ req'.op = "delete_all"]_vars

C6_Witness ==
    /\ req.op = "create"
    /\ resp.status = 200
    /\ Pk \notin DOMAIN req.model
    /\ Cardinality(table) = 2
    /\ resp.body[1].name = req.model.name

\* Filter strings that are not well-formed JSON
Malformed ==
    Truncated \cup {<<"{", Quote("id"), ":", "[", "1", "]", "}", "}">>}

\* C7: a list whose filter string is not well-formed JSON is answered with
\* a client error (4xx) and leaves the table as it was.
C7_MalformedFilterIsClientError ==
    [][(req'.op = "get_all" /\ req'.filter \in Malformed) =>
        /\ ClientError(resp'.status)
        /\ table' = table]_vars

\* C8: a list with a filter specification, skip=0 and no limit answers with
\* exactly the records that have, for every attribute of the filter, one of
\* the attribute's values; an attribute with no value selects no record.
C8_FilterSelectsMatching ==
    (/\ req.op = "get_all" /\ req.filter \in WellFormed
     /\ req.skip = 0 /\ req.limit = None) =>
        /\ resp.status = 200
        /\ {resp.items[i] : i \in 1..Len(resp.items)}
               = Matching(table, SpecOf(req.filter))

\* C9: a router constructed with prefix=None has a non-empty prefix with no
\* uppercase character: the table name with each character lowered.
C9_PrefixLowercase ==
    (prefix # <<>> /\ prefixArg = <<>>) =>
        /\ Len(prefix[1]) > 0
        /\ \A i \in 1..Len(prefix[1]) : prefix[1][i] \notin UpperChars
        /\ Len(prefix[1]) = Len(tablename)
        /\ \A i \in 1..Len(tablename) :
               prefix[1][i] = LowerChar(tablename[i])

C9_Witness ==
    /\ prefix # <<>>
    /\ prefixArg = <<>>
    /\ \E i \in 1..Len(tablename) : tablename[i] \in UpperChars
    /\ prefix[1] # tablename

\* An update payload whose name another record holds
NameTaken(t, item_id, model) ==
    /\ "name" \in DOMAIN model
    /\ \E r \in t : r.id # item_id /\ r.name = model.name

\* C10: an update of an existing record with a name another record holds
\* fails with 422, leaves no uncommitted change in the session and leaves
\* every record as it was; an update of an absent key fails with 404 and
\* changes no record.
C10_UpdateConflictRollsBack ==
    [][req'.op = "update" =>
        /\ (req'.item_id \in Keys(table)
            /\ NameTaken(table, req'.item_id, req'.model))
             => /\ resp'.status = 422
                /\ pending' = <<>>
                /\ table' = table
        /\ req'.item_id \notin Keys(table)
             => /\ resp'.status = 404
                /\ pending' = <<>>
                /\ table' = table
        /\ resp'.status # 200 => table' = table]_vars

C10_Witness ==
    /\ req.op = "update"
    /\ resp.status = 422
    /\ req.item_id \in Keys(table)
    /\ NameTaken(table, req.item_id, req.model)
====
